---- MODULE Spec2Model ----
(***************************************************************************)
(* Exam timetable scheduler (utils/timetable_generator.py) and seat        *)
(* allocator (utils/allocation_engine.py, routes/allocation.py).           *)
(*                                                                         *)
(* Dates are integers (day numbers); date + timedelta(days=1) is d + 1.    *)
(* Department codes, subject codes and subject names are strings; the      *)
(* lexicographic order Python uses when it sorts subject codes is given by *)
(* CodeRank.                                                               *)
(***************************************************************************)
EXTENDS Integers, Sequences, FiniteSets, TLC

(***************************************************************************)
(* Bounds of the timetable inputs.                                         *)
(***************************************************************************)
MaxRows == 4
ExclSpan == 2
StartDate == 1

DeptCodes == {"CS", "IT", "ME"}
SubjectCodes == {"S1", "S2", "S3", "S4"}
SubjectNames == {"Math", "Phys"}
CodeRank == [c \in SubjectCodes |->
                IF c = "S1" THEN 1 ELSE IF c = "S2" THEN 2 ELSE IF c = "S3" THEN 3 ELSE 4]

VARIABLES rows, start_date, excluded, subject_names_map, unplaced, schedule,
          current, days_tried, max_dates, backfilled_count, tt_pc

\* the subject_names_map argument as the caller built it: <<>> for None,
\* <<m>> for a dict m; subject_names_map is the dict the function works on
VARIABLE names_arg

tt_vars == <<rows, start_date, excluded, subject_names_map, unplaced,
             schedule, current, days_tried, max_dates, backfilled_count, tt_pc, names_arg>>

VARIABLES students_by_dept_subject, halls, capacity_per_bench, benches_per_hall,
          target_capacity, names_map,
          pools, allocations, hall_seats, hall_matrix, dominant_pair_idx,
          hall_idx, allowed, hall_subject_dept, placed_this_round, al_pc

al_inputs == <<students_by_dept_subject, halls, capacity_per_bench, benches_per_hall,
               target_capacity, names_map>>

al_vars == <<students_by_dept_subject, halls, capacity_per_bench, benches_per_hall,
             target_capacity, names_map,
             pools, allocations, hall_seats, hall_matrix, dominant_pair_idx,
             hall_idx, allowed, hall_subject_dept, placed_this_round, al_pc>>

\* the tables run_allocation reads and writes, for one (exam_id, exam_date)
VARIABLES exam_schedules, students_table, exam_halls, subjects_table, exam_owned,
          seat_allocations, run_result

db_vars == <<exam_schedules, students_table, exam_halls, subjects_table, exam_owned,
             seat_allocations, run_result>>

\* two requests for the same (exam_id, exam_date), each in a database
\* transaction of its own: where each request stands, the rows its
\* run_allocation computed, the stored rows its DELETE removed, and the
\* committed rows of the seat_allocations table for the key
VARIABLES req_pc, req_rows, tx_deleted, seat_allocations_table

cc_vars == <<req_pc, req_rows, tx_deleted, seat_allocations_table>>

vars == <<tt_vars, al_vars, db_vars, cc_vars>>

(***************************************************************************)
(* Generic helpers.                                                        *)
(***************************************************************************)
Range(s) == {s[i] : i \in DOMAIN s}

Max(S) == CHOOSE x \in S : \A y \in S : y <= x

Min(S) == CHOOSE x \in S : \A y \in S : x <= y

RECURSIVE SortedSeqOf(_)
SortedSeqOf(S) == IF S = {} THEN <<>> ELSE <<Min(S)>> \o SortedSeqOf(S \ {Min(S)})

(***************************************************************************)
(* generate_timetable: set-up (lines 53-84).                               *)
(***************************************************************************)
Row == [department_code : DeptCodes, subject_code : SubjectCodes, subject_name : SubjectNames]

\* names_from_rows: the last row carrying a code decides the code's name
NamesFromRows(rs) ==
    LET codes == {rs[i].subject_code : i \in {j \in DOMAIN rs : rs[j].subject_name # ""}}
        last(c) == Max({i \in DOMAIN rs : rs[i].subject_code = c /\ rs[i].subject_name # ""})
    IN  [c \in codes |-> rs[last(c)].subject_name]

\* lines 61-67: the map of the call; a supplied dict is completed in place
\* with the names of the rows for the codes it does not hold
MergedNames(rs, arg) ==
    IF arg = <<>> THEN NamesFromRows(rs)
    ELSE [c \in DOMAIN arg[1] \cup DOMAIN NamesFromRows(rs) |->
             IF c \in DOMAIN arg[1] THEN arg[1][c] ELSE NamesFromRows(rs)[c]]

Items(rs) == [i \in DOMAIN rs |-> [dept |-> rs[i].department_code, code |-> rs[i].subject_code]]

MaxPerDept(its) ==
    IF its = <<>> THEN 1
    ELSE Max({Cardinality({i \in DOMAIN its : its[i].dept = d}) : d \in {its[i].dept : i \in DOMAIN its}})

MaxDates(its) == MaxPerDept(its) * 2 + 30

get_subject_name(map, subject_code) ==
    IF subject_code \in DOMAIN map THEN map[subject_code] ELSE subject_code

(***************************************************************************)
(* Nested helpers of generate_timetable (lines 90-136, 202-224).           *)
(***************************************************************************)
\* mutant: dates the department already uses are reported as gaps too
find_gaps_keeping_used_dates(sched, dept_code, current_date) ==
    LET dates_with_dept == {sched[i].date : i \in {j \in DOMAIN sched : sched[j].dept = dept_code}}
    IN  IF dates_with_dept = {} THEN <<>>
        ELSE SortedSeqOf(Min(dates_with_dept)..(current_date - 1))

find_gaps_for_department(sched, dept_code, current_date) ==
    LET dates_with_dept == {sched[i].date : i \in {j \in DOMAIN sched : sched[j].dept = dept_code}}
    IN  IF dates_with_dept = {} THEN <<>>
        ELSE SortedSeqOf({d \in Min(dates_with_dept)..(current_date - 1) : d \notin dates_with_dept})

\* A {subject_name: count} dict is kept as the list of the names counted;
\* CountIn is counts.get(name, 0).
CountIn(names, n) == Cardinality({i \in DOMAIN names : names[i] = n})

NamesOnDate(sched, date_val) ==
    LET s == SelectSeq(sched, LAMBDA sl : sl.date = date_val)
    IN  [i \in DOMAIN s |-> s[i].name]

count_subject_names_on_date(sched, date_val, name) ==
    CountIn(NamesOnDate(sched, date_val), name)

get_remaining_subjects_for_dept(unpl, dept_code) ==
    LET s == SelectSeq(unpl, LAMBDA it : it.dept = dept_code)
    IN  [i \in DOMAIN s |-> s[i].code]

\* mutant: off-by-one in the limit, a third department fits
can_fit_subject_in_gap_off_by_one(sched, subj_name, gap_date) ==
    count_subject_names_on_date(sched, gap_date, subj_name) <= 2

can_fit_subject_in_gap(sched, subj_name, gap_date) ==
    count_subject_names_on_date(sched, gap_date, subj_name) < 2

\* returns "" for None
shuffle_and_pick_subject(map, unpl, dept, subject_code, subject_name_counts, excluded_code_set) ==
    LET available_subjects == {unpl[i].code : i \in {j \in DOMAIN unpl : unpl[j].dept = dept}}
        ok == {c \in available_subjects :
                   /\ c # subject_code
                   /\ c \notin excluded_code_set
                   /\ CountIn(subject_name_counts, get_subject_name(map, c)) < 2}
    IN  IF ok = {} THEN ""
        ELSE CHOOSE c \in ok : \A c2 \in ok : CodeRank[c] <= CodeRank[c2]

(***************************************************************************)
(* backfill_gaps (lines 138-200).  st = [schedule, backfilled]; unpl is    *)
(* the nonlocal unplaced list, which the function reassigns only at its    *)
(* end.                                                                    *)
(***************************************************************************)
Slot(map, date_val, dept, code) ==
    [date |-> date_val, dept |-> dept, code |-> code, name |-> get_subject_name(map, code)]

\* body of "for gap_date in gaps" (lines 165-196)
BackfillGap(map, unpl, st, dept_code, department_subjects, gap_date) ==
    LET still_subject_list ==
            SelectSeq(department_subjects, LAMBDA s : s \notin Range(st.backfilled))
        fits == {i \in DOMAIN still_subject_list :
                    can_fit_subject_in_gap(st.schedule,
                        get_subject_name(map, still_subject_list[i]), gap_date)}
        remaining_in_dept ==
            SelectSeq(get_remaining_subjects_for_dept(unpl, dept_code),
                      LAMBDA s : s \notin Range(st.backfilled))
        alternate ==
            shuffle_and_pick_subject(map, unpl, dept_code, remaining_in_dept[1],
                NamesOnDate(st.schedule, gap_date), {})
        place(c) == [schedule |-> Append(st.schedule, Slot(map, gap_date, dept_code, c)),
                     backfilled |-> Append(st.backfilled, c)]
    IN  IF still_subject_list = <<>> THEN st
        ELSE IF fits # {} THEN place(still_subject_list[Min(fits)])
        ELSE IF remaining_in_dept = <<>> THEN st
        ELSE IF alternate # ""
                /\ can_fit_subject_in_gap(st.schedule, get_subject_name(map, alternate), gap_date)
             THEN place(alternate)
        ELSE st

RECURSIVE BackfillGaps(_, _, _, _, _, _, _)
BackfillGaps(map, unpl, st, dept_code, department_subjects, gaps, i) ==
    IF i > Len(gaps) THEN st
    ELSE BackfillGaps(map, unpl,
             BackfillGap(map, unpl, st, dept_code, department_subjects, gaps[i]),
             dept_code, department_subjects, gaps, i + 1)

\* keys of depts_with_unplaced in insertion order (lines 153-157)
DeptsWithUnplaced(unpl) ==
    LET firsts == SortedSeqOf({i \in DOMAIN unpl :
                                 \A j \in 1..(i - 1) : unpl[j].dept # unpl[i].dept})
    IN  [k \in DOMAIN firsts |-> unpl[firsts[k]].dept]

RECURSIVE BackfillDepts(_, _, _, _, _, _)
BackfillDepts(map, unpl, st, depts, current_date, k) ==
    IF k > Len(depts) THEN st
    ELSE BackfillDepts(map, unpl,
             BackfillGaps(map, unpl, st, depts[k],
                 get_remaining_subjects_for_dept(unpl, depts[k]),
                 find_gaps_for_department(st.schedule, depts[k], current_date), 1),
             depts, current_date, k + 1)

\* returns [schedule, unplaced] after the call and the count it returns
backfill_gaps(map, sched, unpl, current_date) ==
    LET st == BackfillDepts(map, unpl, [schedule |-> sched, backfilled |-> <<>>],
                            DeptsWithUnplaced(unpl), current_date, 1)
    IN  [schedule |-> st.schedule,
         unplaced |-> SelectSeq(unpl, LAMBDA it : it.code \notin Range(st.backfilled)),
         count |-> Len(st.backfilled)]

(***************************************************************************)
(* Placement on the current date (lines 238-273).                          *)
(* acc = [schedule, dept_assigned_this_date, names_this_date,              *)
(*        scheduled_codes_this_date, still_unplaced]; names_this_date      *)
(* lists the names counted in subject_name_counts_this_date.               *)
(***************************************************************************)
\* body of "for (dept, subj_code) in unplaced" (lines 246-271)
PlaceOne(map, unpl, current_date, acc, it) ==
    LET subj_name == get_subject_name(map, it.code)
        alt_code == shuffle_and_pick_subject(map, unpl, it.dept, it.code,
                        acc.names_this_date,
                        acc.scheduled_codes_this_date)
        assign(c) ==
            [schedule |-> Append(acc.schedule, Slot(map, current_date, it.dept, c)),
             dept_assigned_this_date |-> acc.dept_assigned_this_date \cup {it.dept},
             names_this_date |-> Append(acc.names_this_date, get_subject_name(map, c)),
             scheduled_codes_this_date |-> acc.scheduled_codes_this_date \cup {c},
             still_unplaced |-> acc.still_unplaced]
        defer == [acc EXCEPT !.still_unplaced = Append(@, it)]
    IN  IF it.dept \in acc.dept_assigned_this_date THEN defer
        ELSE IF CountIn(acc.names_this_date, subj_name) >= 2
             THEN IF alt_code # "" THEN assign(alt_code) ELSE defer
        ELSE assign(it.code)

RECURSIVE PlaceLoop(_, _, _, _, _)
PlaceLoop(map, unpl, current_date, acc, i) ==
    IF i > Len(unpl) THEN acc
    ELSE PlaceLoop(map, unpl, current_date,
                   PlaceOne(map, unpl, current_date, acc, unpl[i]), i + 1)

\* one iteration of "while unplaced and days_tried < max_dates" (lines 229-275)
\* st = [schedule, unplaced, current, days_tried, backfilled_count]
DayIteration(map, excl, st) ==
    IF st.current \in excl
    THEN [st EXCEPT !.days_tried = @ + 1, !.current = @ + 1]
    ELSE LET b == backfill_gaps(map, st.schedule, st.unplaced, st.current)
             acc == PlaceLoop(map, b.unplaced, st.current,
                        [schedule |-> b.schedule,
                         dept_assigned_this_date |-> {},
                         names_this_date |-> <<>>,
                         scheduled_codes_this_date |-> {},
                         still_unplaced |-> <<>>], 1)
         IN  IF b.unplaced # <<>>
             THEN [schedule |-> acc.schedule, unplaced |-> acc.still_unplaced,
                   current |-> st.current + 1, days_tried |-> st.days_tried + 1,
                   backfilled_count |-> b.count]
             ELSE [schedule |-> b.schedule, unplaced |-> b.unplaced,
                   current |-> st.current + 1, days_tried |-> st.days_tried + 1,
                   backfilled_count |-> b.count]

\* the whole call: the schedule generate_timetable returns for (rows, start, excluded)
RECURSIVE RunDays(_, _, _, _)
RunDays(map, excl, maxd, st) ==
    IF st.unplaced # <<>> /\ st.days_tried < maxd
    THEN RunDays(map, excl, maxd, DayIteration(map, excl, st))
    ELSE st.schedule

generate_timetable(rs, start, excl, arg) ==
    RunDays(MergedNames(rs, arg), excl, MaxDates(Items(rs)),
            [schedule |-> <<>>, unplaced |-> Items(rs), current |-> start, days_tried |-> 0,
             backfilled_count |-> 0])

(***************************************************************************)
(* The timetable run as a state machine: one step per main-loop iteration. *)
(***************************************************************************)
DistinctOfferings(rs) ==
    \A i, j \in DOMAIN rs :
        (rs[i].department_code = rs[j].department_code
         /\ rs[i].subject_code = rs[j].subject_code) => i = j

\* Departments and names are only compared for equality, so the inputs are
\* taken up to renaming: departments first appear in the order CS, IT, ME
\* and the first row is named Math.
CanonicalNaming(rs) ==
    /\ rs # <<>> => rs[1].subject_name = "Math"
    /\ \A i \in DOMAIN rs :
          /\ rs[i].department_code = "IT" =>
                \E j \in 1..(i - 1) : rs[j].department_code = "CS"
          /\ rs[i].department_code = "ME" =>
                \E j \in 1..(i - 1) : rs[j].department_code = "IT"

\* every list of at most MaxRows offerings over three subject codes, each
\* row with a name of its own
SmallRow == [department_code : DeptCodes, subject_code : {"S1", "S2", "S3"},
             subject_name : SubjectNames]

SmallRowLists ==
    {rs \in UNION {[1..n -> SmallRow] : n \in 0..MaxRows} :
        DistinctOfferings(rs) /\ CanonicalNaming(rs)}

\* three departments with two offerings each, listed department by
\* department in two rounds, over four subject codes named by code
PairedRowLists ==
    {[i \in 1..6 |-> [department_code |-> <<"CS", "IT", "ME">>[((i - 1) % 3) + 1],
                      subject_code |-> cs[i],
                      subject_name |-> nm[cs[i]]]] :
        cs \in {c \in [1..6 -> SubjectCodes] : \A i \in 1..3 : c[i] # c[i + 3]},
        nm \in [SubjectCodes -> SubjectNames]}

\* two departments that each offer Math and Phys under codes of their
\* own, the four offerings in any order
TwoByTwoOfferings ==
    <<[department_code |-> "CS", subject_code |-> "S1", subject_name |-> "Math"],
      [department_code |-> "CS", subject_code |-> "S2", subject_name |-> "Phys"],
      [department_code |-> "IT", subject_code |-> "S3", subject_name |-> "Math"],
      [department_code |-> "IT", subject_code |-> "S4", subject_name |-> "Phys"]>>

TwoByTwoRowLists ==
    {[i \in 1..4 |-> TwoByTwoOfferings[p[i]]] : p \in Permutations(1..4)}

\* two departments with one offering each, then a third with three, over
\* four subject codes named by code
LongDeptRowLists ==
    {[i \in 1..5 |-> [department_code |-> <<"CS", "IT", "ME", "ME", "ME">>[i],
                      subject_code |-> cs[i],
                      subject_name |-> nm[cs[i]]]] :
        cs \in {c \in [1..5 -> SubjectCodes] : c[3] # c[4] /\ c[3] # c[5] /\ c[4] # c[5]},
        nm \in [SubjectCodes -> SubjectNames]}

RowLists == SmallRowLists \cup {rs \in PairedRowLists : CanonicalNaming(rs)}
                \cup TwoByTwoRowLists
                \cup {rs \in LongDeptRowLists : CanonicalNaming(rs)}

\* the excluded dates: any dates among the first ExclSpan ones, or, for a
\* list of at most two offerings, every date after the first up to the last
\* one the day budget of the main loop reaches
ExcludedSets(rs) ==
    (SUBSET (StartDate..(StartDate + ExclSpan - 1)))
        \cup (IF Len(rs) \in 1..2
               THEN {(StartDate + 1)..(StartDate + MaxDates(Items(rs)) - 1)}
               ELSE {})

\* the dicts a caller supplies: names for some of the codes S1 and S2 and,
\* as the callers of src/test_compact_gapfill.py do, an end date under the
\* key __end_date__
EndDateKey == "__end_date__"

SuppliedMaps ==
    LET named == UNION {[cs -> SubjectNames] : cs \in SUBSET {"S1", "S2"}}
    IN  named \cup {m @@ (EndDateKey :> d) :
                       m \in named, d \in StartDate..(StartDate + ExclSpan - 1)}

NamesArgs(rs) ==
    {<<>>} \cup (IF Len(rs) \in 1..2 THEN {<<m>> : m \in SuppliedMaps} ELSE {})

TTInit ==
    /\ rows \in RowLists
    /\ start_date = StartDate
    /\ excluded \in ExcludedSets(rows)
    /\ names_arg \in NamesArgs(rows)
    /\ subject_names_map = MergedNames(rows, names_arg)
    /\ unplaced = Items(rows)
    /\ schedule = <<>>
    /\ max_dates = MaxDates(Items(rows))
    /\ current = start_date
    /\ days_tried = 0
    /\ backfilled_count = 0
    /\ tt_pc = "loop"

TTCur == [schedule |-> schedule, unplaced |-> unplaced, current |-> current,
          days_tried |-> days_tried, backfilled_count |-> backfilled_count]

TTApply(st) ==
    /\ schedule' = st.schedule
    /\ unplaced' = st.unplaced
    /\ current' = st.current
    /\ days_tried' = st.days_tried
    /\ backfilled_count' = st.backfilled_count
    /\ UNCHANGED <<rows, start_date, excluded, subject_names_map, max_dates, tt_pc, names_arg>>
    /\ UNCHANGED <<al_vars, db_vars, cc_vars>>

\* lines 230-232: the current date is excluded
SkipExcludedDate ==
    /\ tt_pc = "loop"
    /\ unplaced # <<>> /\ days_tried < max_dates
    /\ current \in excluded
    /\ TTApply(DayIteration(subject_names_map, excluded, TTCur))

\* lines 234-275: backfill, then place on the current date
ScheduleDate ==
    /\ tt_pc = "loop"
    /\ unplaced # <<>> /\ days_tried < max_dates
    /\ current \notin excluded
    /\ TTApply(DayIteration(subject_names_map, excluded, TTCur))

\* line 277 (and line 73 for an empty item list)
ReturnSchedule ==
    /\ tt_pc = "loop"
    /\ ~(unplaced # <<>> /\ days_tried < max_dates)
    /\ tt_pc' = "done"
    /\ UNCHANGED <<rows, start_date, excluded, subject_names_map, unplaced,
                   schedule, current, days_tried, max_dates, backfilled_count, names_arg>>
    /\ UNCHANGED <<al_vars, db_vars, cc_vars>>

(***************************************************************************)
(* Properties of the schedule that generate_timetable returns.             *)
(***************************************************************************)
Returned == tt_pc = "done"

\* C1: in the returned schedule no two slots share (date, department_code),
\* whether placed by the main per-date loop or by backfill_gaps.
C1_NoDeptTwiceOnDate ==
    Returned =>
        \A i, j \in DOMAIN schedule :
            (schedule[i].date = schedule[j].date /\ schedule[i].dept = schedule[j].dept)
                => i = j

\* a returned schedule in which a department sits on several dates and two
\* departments share a date, the last iteration having backfilled a gap
C1_Witness ==
    /\ Returned
    /\ backfilled_count > 0
    /\ \E i, j \in DOMAIN schedule :
          schedule[i].dept = schedule[j].dept /\ schedule[i].date # schedule[j].date
    /\ \E i, j \in DOMAIN schedule :
          schedule[i].dept # schedule[j].dept /\ schedule[i].date = schedule[j].date

\* C2: in the returned schedule, for every date and subject_name at most 2
\* slots of that date carry that subject_name.
C2_AtMostTwoPerName ==
    Returned =>
        \A i \in DOMAIN schedule :
            count_subject_names_on_date(schedule, schedule[i].date, schedule[i].name) <= 2

\* a returned schedule where the limit was active after a backfill: a date
\* before the last one carries a name twice, a third slot of that name sits
\* on a later date, and the last iteration backfilled a gap
C2_Witness ==
    /\ Returned
    /\ backfilled_count > 0
    /\ \E i, j \in DOMAIN schedule :
          /\ schedule[i].name = schedule[j].name
          /\ schedule[i].date < schedule[j].date
          /\ count_subject_names_on_date(schedule, schedule[i].date, schedule[i].name) = 2

\* C3: no slot of the returned schedule has a date in the excluded set,
\* including the slots backfill_gaps places on earlier gap dates.
C3_NoExcludedDate ==
    Returned => \A i \in DOMAIN schedule : schedule[i].date \notin excluded

SlotsOf(sched, dept, code) ==
    {i \in DOMAIN sched : sched[i].dept = dept /\ sched[i].code = code}

\* C4: the returned schedule has exactly one slot per input offering
\* (department_code, subject_code): none missing, none on two dates.
C4_ExactlyOneSlotPerOffering ==
    Returned =>
        /\ \A r \in DOMAIN rows :
              Cardinality(SlotsOf(schedule, rows[r].department_code, rows[r].subject_code)) = 1
        /\ Len(schedule) = Len(rows)

SlotSet(sched) ==
    {<<sched[i].date, sched[i].dept, sched[i].code>> : i \in DOMAIN sched}

PermutedRows(p) == [i \in DOMAIN rows |-> rows[p[i]]]

\* C9: for any permutation of the input rows (same start date, same
\* excluded dates) generate_timetable returns the same set of
\* (date, department, subject) slots.
C9_SameScheduleForPermutedRows ==
    Returned =>
        \A p \in Permutations(DOMAIN rows) :
            SlotSet(generate_timetable(PermutedRows(p), start_date, excluded, names_arg))
                = SlotSet(schedule)

\* C11: generate_timetable never returns a partial schedule: when it
\* returns with offerings still unplaced (its day budget used up), or in
\* any other case where an offering has no slot, the returned schedule is
\* empty.
C11_NoPartialSchedule ==
    Returned =>
        \/ schedule = <<>>
        \/ \A r \in DOMAIN rows :
              SlotsOf(schedule, rows[r].department_code, rows[r].subject_code) # {}

HasEndDate == names_arg # <<>> /\ EndDateKey \in DOMAIN names_arg[1]

\* the dates of the window start_date..end date that are not excluded
AvailableInWindow == (start_date..names_arg[1][EndDateKey]) \ excluded

\* C13: when an explicit end date is supplied and the window from the
\* start date to it holds fewer non-excluded dates than the offerings of
\* the busiest department need (every date of the window excluded
\* included), the returned schedule is empty: no offering is placed.
C13_EmptyOnInsufficientWindow ==
    (Returned /\ HasEndDate /\ rows # <<>>
        /\ Cardinality(AvailableInWindow) < MaxPerDept(Items(rows)))
            => schedule = <<>>

DatesOf(sched) == {sched[i].date : i \in DOMAIN sched}

\* the offerings that carry subject name n
OfferingsNamed(n) ==
    {i \in DOMAIN rows : get_subject_name(subject_names_map, rows[i].subject_code) = n}

\* the least number of dates a complete assignment needs under the hard
\* rules: a date per offering of the busiest department, and a date per
\* two offerings of the most frequent subject name (for departments
\* against names with these capacities the larger of the two is attained)
MinDates ==
    Max({MaxPerDept(Items(rows))}
        \cup {(Cardinality(OfferingsNamed(n)) + 1) \div 2 :
                n \in {get_subject_name(subject_names_map, rows[i].subject_code) :
                          i \in DOMAIN rows}})

\* C14: the returned schedule uses the least number of distinct dates: no
\* complete assignment of the same offerings under the hard rules uses
\* fewer.
C14_MinimalDates ==
    (Returned /\ rows # <<>>) => Cardinality(DatesOf(schedule)) <= MinDates

DeptsOfRows == {rows[i].department_code : i \in DOMAIN rows}

NamesOfDept(d) ==
    {get_subject_name(subject_names_map, rows[i].subject_code) :
        i \in {j \in DOMAIN rows : rows[j].department_code = d}}

\* two departments, two offerings each, the same two subject names in both,
\* all four subject codes distinct
TwoDeptsSameTwoNames ==
    /\ Len(rows) = 4
    /\ Cardinality(DeptsOfRows) = 2
    /\ Cardinality({rows[i].subject_code : i \in DOMAIN rows}) = 4
    /\ \A d \in DeptsOfRows : Cardinality(NamesOfDept(d)) = 2
    /\ \A d, e \in DeptsOfRows : NamesOfDept(d) = NamesOfDept(e)

\* C15: for two departments that each offer the same two subject names
\* under distinct codes, with no excluded date, the schedule uses exactly 2
\* distinct dates and on each of them each of the two names appears
\* exactly once.
C15_TwoByTwoAlternates ==
    (Returned /\ TwoDeptsSameTwoNames /\ excluded = {}) =>
        /\ Cardinality(DatesOf(schedule)) = 2
        /\ \A d \in DatesOf(schedule) :
              \A n \in UNION {NamesOfDept(dp) : dp \in DeptsOfRows} :
                  count_subject_names_on_date(schedule, d, n) = 1

DatesOfDept(sched, d) == {sched[i].date : i \in {j \in DOMAIN sched : sched[j].dept = d}}

\* C16: each department's exam dates are contiguous among the available
\* dates: between its first and its last exam date there is no
\* non-excluded date on which it has no exam.
C16_ContiguousDates ==
    Returned =>
        \A d \in {schedule[i].dept : i \in DOMAIN schedule} :
            \A dt \in Min(DatesOfDept(schedule, d))..Max(DatesOfDept(schedule, d)) :
                dt \notin excluded => dt \in DatesOfDept(schedule, d)

\* C19: generate_timetable leaves its arguments as they were: after the
\* call a subject_names_map the caller supplied has the contents it had
\* before the call (rows and the excluded dates are never assigned to).
C19_SuppliedMapUnchanged ==
    (Returned /\ names_arg # <<>>) => subject_names_map = names_arg[1]

\* the shuffles of the placement loop of one date: the offerings found
\* blocked by the name limit for which shuffle_and_pick_subject returned an
\* alternative, walking unpl as PlaceLoop does
RECURSIVE ShufflesIn(_, _, _, _, _)
ShufflesIn(map, unpl, current_date, acc, i) ==
    IF i > Len(unpl) THEN {}
    ELSE LET it == unpl[i]
             alt == shuffle_and_pick_subject(map, unpl, it.dept, it.code,
                        acc.names_this_date, acc.scheduled_codes_this_date)
             hit == /\ it.dept \notin acc.dept_assigned_this_date
                    /\ CountIn(acc.names_this_date, get_subject_name(map, it.code)) >= 2
                    /\ alt # ""
         IN  (IF hit THEN {[dept |-> it.dept, blocked |-> it.code, alt |-> alt]} ELSE {})
                 \cup ShufflesIn(map, unpl, current_date,
                                 PlaceOne(map, unpl, current_date, acc, it), i + 1)

\* the shuffles of the main-loop iteration that starts in the current state
ShufflesOfDay ==
    LET b == backfill_gaps(subject_names_map, schedule, unplaced, current)
    IN  IF tt_pc = "loop" /\ unplaced # <<>> /\ days_tried < max_dates
           /\ current \notin excluded /\ b.unplaced # <<>>
        THEN ShufflesIn(subject_names_map, b.unplaced, current,
                 [schedule |-> b.schedule, dept_assigned_this_date |-> {},
                  names_this_date |-> <<>>, scheduled_codes_this_date |-> {},
                  still_unplaced |-> <<>>], 1)
        ELSE {}

\* C21: local shuffle: when an offering is blocked on the current date by
\* the name limit and shuffle_and_pick_subject returns an alternative of
\* the same department, the alternative is placed on the current date and
\* leaves the unplaced list, and the blocked offering stays in it.
C21_ShuffleDefersBlocked ==
    [][\A sh \in ShufflesOfDay :
          /\ \E i \in DOMAIN schedule' :
                /\ schedule'[i].date = current
                /\ schedule'[i].dept = sh.dept /\ schedule'[i].code = sh.alt
          /\ [dept |-> sh.dept, code |-> sh.alt] \notin Range(unplaced')
          /\ [dept |-> sh.dept, code |-> sh.blocked] \in Range(unplaced')]_vars

\* the departments that have an offering named n
DeptsSharing(n) == {rows[i].department_code : i \in OfferingsNamed(n)}

\* K: the largest number of offerings of one department, or the largest
\* number of departments sharing one subject name, whichever is larger
WindowDays ==
    Max({MaxPerDept(Items(rows))}
        \cup {Cardinality(DeptsSharing(get_subject_name(subject_names_map, rows[i].subject_code))) :
                i \in DOMAIN rows})

\* the k-th non-excluded date counted from the start date
KthAvailable(k) ==
    CHOOSE d \in start_date..(start_date + k + Cardinality(excluded)) :
        d \notin excluded /\ Cardinality((start_date..d) \ excluded) = k

\* C22: with no explicit end date every slot lies in the implicit window:
\* not before the start date and not after the K-th available date.
C22_SlotsInImplicitWindow ==
    (Returned /\ ~HasEndDate /\ rows # <<>>) =>
        \A i \in DOMAIN schedule :
            /\ schedule[i].date >= start_date
            /\ schedule[i].date <= KthAvailable(WindowDays)

\* C23: with no subject_names_map supplied, the name stored in each slot is
\* the subject_name of the input row of the slot's own department and
\* subject code, also when two departments use one code with two names.
C23_SlotNameOfOwnRow ==
    (Returned /\ names_arg = <<>>) =>
        \A k \in DOMAIN schedule : \A i \in DOMAIN rows :
            (rows[i].department_code = schedule[k].dept
                /\ rows[i].subject_code = schedule[k].code)
            => schedule[k].name = rows[i].subject_name

(***************************************************************************)
(* Seat allocator (utils/allocation_engine.py).                            *)
(*                                                                         *)
(* Department, subject, hall and student ids are integers.  A student      *)
(* tuple (id, roll_number, name, dept_id, subj_id, subj_name) is kept as   *)
(* [id, dept, subj, name]; roll number and student name are never read.    *)
(* The input dict students_by_dept_subject is the list of its items in     *)
(* insertion order, each [dept, subj, students].  A hall is                *)
(* [id, hall_number, capacity]; hall_number is the rank of the label in    *)
(* string order.  An optional argument is <<>> for None and <<v>> for v.   *)
(***************************************************************************)
TARGET_CAPACITY == 45
DEFAULT_BENCHES_PER_HALL == 15

MaxKeys == 3
MaxStudents == 4
MaxHalls == 2
MaxCapacity == 3

DeptIds == 1..3
SubjIds == 1..3
IntStr == [n \in SubjIds |-> IF n = 1 THEN "1" ELSE IF n = 2 THEN "2" ELSE "3"]

RECURSIVE SumSeq(_)
SumSeq(s) == IF s = <<>> THEN 0 ELSE Head(s) + SumSeq(Tail(s))

Ceil(a, b) == (a + b - 1) \div b

(***************************************************************************)
(* Set-up of allocate_seats (lines 33-51, 107).  inp is the record of the  *)
(* arguments; pools[i] is the queue of the i-th key.                       *)
(***************************************************************************)
SubjectNameOf(map, subj_id) ==
    IF map # <<>> /\ subj_id \in DOMAIN map[1] THEN map[1][subj_id] ELSE IntStr[subj_id]

\* lines 38-43: the queues, each student tuple carrying its subject name
InitialPools(inp) ==
    [i \in DOMAIN inp.students |->
        [j \in DOMAIN inp.students[i].students |->
            [id |-> inp.students[i].students[j],
             dept |-> inp.students[i].dept,
             subj |-> inp.students[i].subj,
             name |-> SubjectNameOf(inp.subject_names_map, inp.students[i].subj)]]]

PoolKeys(inp) == [i \in DOMAIN inp.students |->
                     [dept |-> inp.students[i].dept, subj |-> inp.students[i].subj]]

dept_totals(inp, d) ==
    SumSeq([i \in DOMAIN inp.students |->
               IF inp.students[i].dept = d THEN Len(inp.students[i].students) ELSE 0])

\* indices of the keys of a department, in insertion order (keys_by_dept)
keys_by_dept(inp, d) ==
    SortedSeqOf({i \in DOMAIN inp.students : inp.students[i].dept = d})

FirstKeyOf(inp, d) == Min({i \in DOMAIN inp.students : inp.students[i].dept = d})

\* line 49: departments by descending total; sorted() is stable, so equal
\* totals keep the insertion order of dept_totals
all_depts(inp) ==
    LET ds == {inp.students[i].dept : i \in DOMAIN inp.students}
        before(d2, d) ==
            \/ dept_totals(inp, d2) > dept_totals(inp, d)
            \/ /\ dept_totals(inp, d2) = dept_totals(inp, d)
               /\ FirstKeyOf(inp, d2) < FirstKeyOf(inp, d)
        rank(d) == 1 + Cardinality({d2 \in ds : before(d2, d)})
    IN  [r \in 1..Cardinality(ds) |-> CHOOSE d \in ds : rank(d) = r]

\* line 107: halls by hall_number, stable
halls_sorted(inp) ==
    LET hs == inp.halls
        before(i, j) ==
            \/ hs[i].hall_number < hs[j].hall_number
            \/ hs[i].hall_number = hs[j].hall_number /\ i < j
        rank(i) == 1 + Cardinality({j \in DOMAIN hs : before(j, i)})
    IN  [r \in DOMAIN hs |-> hs[CHOOSE i \in DOMAIN hs : rank(i) = r]]

(***************************************************************************)
(* Nested helpers of allocate_seats (lines 53-105).                        *)
(***************************************************************************)
count_remaining(pls) == SumSeq([i \in DOMAIN pls |-> Len(pls[i])])

get_dept_remaining(inp, pls, dept_id) ==
    LET ks == keys_by_dept(inp, dept_id)
    IN  SumSeq([k \in DOMAIN ks |-> Len(pls[ks[k]])])

\* mutant: a subject is never held against another department
subject_conflict_never(hsd, dept_id, subj_id) == FALSE

\* hsd is the dict hall_subject_dept, a function on the subjects it holds
subject_conflict_in_hall(hsd, dept_id, subj_id) ==
    IF subj_id \notin DOMAIN hsd THEN FALSE ELSE hsd[subj_id] # dept_id

\* mutant: the last position of a bench is not compared with its neighbour
get_adjacent_ignoring_last_position(matrix, subj_name, bench, pos) ==
    LET adj == IF pos = 1 THEN {<<bench, 2>>}
               ELSE IF pos = 2 THEN {<<bench, 1>>, <<bench, 3>>}
               ELSE {}
    IN  \E seat \in adj : seat \in DOMAIN matrix /\ matrix[seat].name = subj_name

\* matrix is the dict of one hall, a function on the seats <<bench, pos>> it holds
get_adjacent_same_subject_name(matrix, subj_name, bench, pos) ==
    LET adj == IF pos = 1 THEN {<<bench, 2>>}
               ELSE IF pos = 2 THEN {<<bench, 1>>, <<bench, 3>>}
               ELSE {<<bench, 2>>}
    IN  \E seat \in adj : seat \in DOMAIN matrix /\ matrix[seat].name = subj_name

\* mutant: occupied seats are not skipped
find_valid_seat_ignoring_used(matrix, subj_name, benches_count, studs_per_bench) ==
    LET ok == {seat \in (1..benches_count) \X (1..studs_per_bench) :
                  ~get_adjacent_same_subject_name(matrix, subj_name, seat[1], seat[2])}
    IN  IF ok = {} THEN <<>>
        ELSE CHOOSE seat \in ok :
                \A o \in ok : seat[1] < o[1] \/ (seat[1] = o[1] /\ seat[2] <= o[2])

\* returns <<>> for None, else <<bench, pos>>: the first admissible seat in
\* bench-major order
find_valid_seat(matrix, subj_name, benches_count, studs_per_bench) ==
    LET FirstSeat(m, nm, bc) ==
            LET ok(b, p) == /\ <<b, p>> \notin DOMAIN m
                            /\ ~get_adjacent_same_subject_name(m, nm, b, p)
                first(b, p) == /\ ok(b, p)
                               /\ \A o \in 1..(p - 1) : ~ok(b, o)
                               /\ \A o \in (1..(b - 1)) \X (1..studs_per_bench) :
                                     ~ok(o[1], o[2])
            IN  IF \E seat \in (1..bc) \X (1..studs_per_bench) : ok(seat[1], seat[2])
                THEN CHOOSE seat \in (1..bc) \X (1..studs_per_bench) :
                        first(seat[1], seat[2])
                ELSE <<>>
    \* the arguments are bound, so that each is evaluated once
    IN  CHOOSE r \in {FirstSeat(m, nm, bc) :
                        m \in {matrix}, nm \in {subj_name}, bc \in {benches_count}} : TRUE

\* "for d in allowed" walks a set of small ints in ascending order
get_keys_for_depts(inp, pls, allowed_depts) ==
    LET ds == SortedSeqOf(allowed_depts)
        F[n \in 0..Len(ds)] ==
            IF n = 0 THEN <<>>
            ELSE F[n - 1] \o SelectSeq(keys_by_dept(inp, ds[n]), LAMBDA k : pls[k] # <<>>)
    IN  F[Len(ds)]

\* lines 119-130 and 214-221
HallCapacity(hall) == IF hall.capacity = 0 THEN TARGET_CAPACITY ELSE hall.capacity

BenchesForHall(inp, hall) ==
    IF HallCapacity(hall) = TARGET_CAPACITY THEN inp.benches_per_hall
    ELSE Max({1, Ceil(HallCapacity(hall), inp.capacity_per_bench)})

HallTarget(inp, hall) ==
    IF inp.target_capacity # <<>> THEN Min({HallCapacity(hall), inp.target_capacity[1]})
    ELSE HallCapacity(hall)

(***************************************************************************)
(* The run of allocate_seats.  e is the record of its mutable locals:      *)
(* pools, allocations, hall_seats, hall_matrix, dominant_pair_idx,         *)
(* hall_idx, allowed, hall_subject_dept, placed_this_round, and pc, the    *)
(* position in the function: "phase1" (head of the Phase-1 while),         *)
(* "hall" (head of the inner while), "phase2" (head of the Phase-2 while), *)
(* "return" (line 267), "done".                                            *)
(***************************************************************************)
EmptyDict == <<>>

EngineStart(inp) ==
    [pools |-> InitialPools(inp), allocations |-> <<>>, hall_seats |-> EmptyDict,
     hall_matrix |-> EmptyDict, dominant_pair_idx |-> 0, hall_idx |-> 0,
     allowed |-> {}, hall_subject_dept |-> EmptyDict, placed_this_round |-> TRUE,
     pc |-> "phase1"]

CurrentHall(inp, e) == halls_sorted(inp)[e.hall_idx + 1]

depts_with_students(inp, pls) ==
    SelectSeq(all_depts(inp), LAMBDA d : get_dept_remaining(inp, pls, d) > 0)

\* lines 140-151: the two departments a hall starts with
InitialAllowed(inp, e) ==
    LET ads == all_depts(inp)
        dws == depts_with_students(inp, e.pools)
        dominant_dept == ads[1]
        smaller_depts == IF Len(ads) > 1 THEN Tail(ads) ELSE <<>>
        smaller_with_students ==
            SelectSeq(smaller_depts, LAMBDA d : get_dept_remaining(inp, e.pools, d) > 0)
        first_two == {dws[1], dws[2]}
    IN  IF dominant_dept \in Range(dws) /\ smaller_depts # <<>> /\ smaller_with_students # <<>>
        THEN [allowed |-> {dominant_dept,
                           smaller_with_students[(e.dominant_pair_idx % Len(smaller_with_students)) + 1]},
              dominant_pair_idx |-> e.dominant_pair_idx + 1]
        ELSE [allowed |-> first_two, dominant_pair_idx |-> e.dominant_pair_idx]

Phase1Continues(inp, e) == e.hall_idx < Len(inp.halls) /\ count_remaining(e.pools) > 0

\* lines 116-153: enter the next hall, or break when fewer than two
\* departments have students
StartHall(inp, e) ==
    LET hid == CurrentHall(inp, e).id
        e1 == [e EXCEPT !.hall_seats = (hid :> <<>>) @@ @,
                        !.hall_matrix = (hid :> EmptyDict) @@ @,
                        !.hall_subject_dept = EmptyDict]
        sel == InitialAllowed(inp, e)
    IN  IF Len(depts_with_students(inp, e.pools)) < 2
        THEN [e1 EXCEPT !.pc = "phase2"]
        ELSE [e1 EXCEPT !.allowed = sel.allowed,
                        !.dominant_pair_idx = sel.dominant_pair_idx,
                        !.placed_this_round = TRUE,
                        !.pc = "hall"]

\* mutant: the hall is filled without regard to its target
HallLoopContinues_without_target(inp, e) ==
    e.placed_this_round \/ count_remaining(e.pools) > 0

\* line 154
HallLoopContinues(inp, e) ==
    /\ Cardinality(DOMAIN e.hall_matrix[CurrentHall(inp, e).id]) < HallTarget(inp, CurrentHall(inp, e))
    /\ (e.placed_this_round \/ count_remaining(e.pools) > 0)

\* lines 156-165: the keys tried in this round, the department whose turn
\* it is first
RoundKeys(inp, e) ==
    LET keys == get_keys_for_depts(inp, e.pools, e.allowed)
        dept_order == SortedSeqOf(e.allowed)
        n_placed == Cardinality(DOMAIN e.hall_matrix[CurrentHall(inp, e).id])
        next_dept == dept_order[(n_placed % 2) + 1]
    IN  IF Len(dept_order) >= 2
        THEN SelectSeq(keys, LAMBDA k : PoolKeys(inp)[k].dept = next_dept)
                 \o SelectSeq(keys, LAMBDA k : PoolKeys(inp)[k].dept # next_dept)
        ELSE keys

\* lines 93-97: the pools after pop_student took the head of queue k
pop_student(pls, k) ==
    [pls EXCEPT ![k] = Tail(@)]

\* mutant: a student that got no seat goes to the end of its queue
put_back_at_tail(pls, k, stu) == [pls EXCEPT ![k] = Append(@, stu)]

\* lines 186-187 and 262-263: a student that got no seat goes back to the
\* head of its queue
put_back(pls, k, stu) ==
    [pls EXCEPT ![k] = <<stu>> \o @]

\* lines 167-187 and 243-263: the for loop over keys, from its i-th key on
RECURSIVE SeatWalk(_, _, _, _)
SeatWalk(inp, e, keys, i) ==
    LET \* lines 174-185: stu takes seat in hall hid
        Seated(hid, k, stu, seat) ==
            [e EXCEPT
                !.pools = pop_student(e.pools, k),
                !.allocations = Append(@, [hall_id |-> hid, bench |-> seat[1],
                                            pos |-> seat[2], stu |-> stu]),
                !.hall_seats = (hid :> Append(e.hall_seats[hid], seat)) @@ @,
                !.hall_matrix = (hid :> ((seat :> [dept |-> stu.dept, subj |-> stu.subj,
                                                   name |-> stu.name])
                                         @@ e.hall_matrix[hid])) @@ @,
                !.hall_subject_dept = IF stu.subj \in DOMAIN @ THEN @
                                      ELSE (stu.subj :> stu.dept) @@ @,
                !.placed_this_round = TRUE]
        \* lines 186-187: no seat, stu goes back and the next key is tried
        Refused(k, stu) ==
            SeatWalk(inp, [e EXCEPT !.pools = put_back(pop_student(e.pools, k), k, stu)],
                     keys, i + 1)
        \* lines 170-187, for the student popped from queue k
        Popped(hall, k, stu) ==
            CHOOSE r \in {IF seat # <<>> THEN Seated(hall.id, k, stu, seat)
                          ELSE Refused(k, stu) :
                             seat \in {find_valid_seat(e.hall_matrix[hall.id], stu.name,
                                           BenchesForHall(inp, hall),
                                           inp.capacity_per_bench)}} : TRUE
        \* lines 167-187, for key k
        Visit(hall, k) ==
            IF \/ subject_conflict_in_hall(e.hall_subject_dept, PoolKeys(inp)[k].dept,
                                            PoolKeys(inp)[k].subj)
               \/ e.pools[k] = <<>>
            THEN SeatWalk(inp, e, keys, i + 1)
            ELSE CHOOSE r \in {Popped(hall, k, stu) : stu \in {Head(e.pools[k])}} : TRUE
    \* hall, k, stu and seat are bound, so that each is evaluated once
    IN  IF i > Len(keys) THEN [e EXCEPT !.placed_this_round = FALSE]
        ELSE CHOOSE r \in {Visit(hall, k) :
                              hall \in {CurrentHall(inp, e)}, k \in {keys[i]}} : TRUE

\* lines 167-187 and 243-263: the first key of keys whose head student gets
\* a seat is seated; a student popped without a seat goes back to the head
\* of its queue, so nothing changes for the keys that fail.  Returns e with
\* placed_this_round telling whether a student was seated.
SeatFirst(inp, e, keys) == SeatWalk(inp, e, keys, 1)

\* mutant: no department is ever added to a hall
AddableDeptsNone(inp, e) == <<>>

\* lines 191-204: the departments that may be added to the hall
AddableDepts(inp, e) ==
    SelectSeq(all_depts(inp),
        LAMBDA d : /\ get_dept_remaining(inp, e.pools, d) > 0
                   /\ d \notin e.allowed
                   /\ \E i \in DOMAIN e.pools :
                         /\ PoolKeys(inp)[i].dept = d
                         /\ e.pools[i] # <<>>
                         /\ ~subject_conflict_in_hall(e.hall_subject_dept, d,
                                                      PoolKeys(inp)[i].subj))

\* mutant: a round that seats nobody and adds no department stays in the hall
HallRound_without_break(inp, e) ==
    LET e1 == SeatFirst(inp, e, RoundKeys(inp, e))
        more == AddableDepts(inp, e)
    IN  IF e1.placed_this_round THEN e1
        ELSE IF more # <<>>
             THEN [e1 EXCEPT !.allowed = @ \cup {more[1]}, !.placed_this_round = TRUE]
        ELSE e1

\* lines 155-206: one round of the inner while of Phase 1
HallRound(inp, e) ==
    LET e1 == SeatFirst(inp, e, RoundKeys(inp, e))
        more == AddableDepts(inp, e)
    IN  IF e1.placed_this_round THEN e1
        ELSE IF more # <<>>
             THEN [e1 EXCEPT !.allowed = @ \cup {more[1]}, !.placed_this_round = TRUE]
        ELSE [e1 EXCEPT !.hall_idx = @ + 1, !.pc = "phase1"]

\* line 208, reached when the condition of line 154 fails
LeaveHall(inp, e) == [e EXCEPT !.hall_idx = @ + 1, !.pc = "phase1"]

\* lines 240-263: the inner while of Phase 2
RECURSIVE OverflowFill(_, _)
OverflowFill(inp, e) ==
    IF count_remaining(e.pools) > 0 /\ e.placed_this_round
    THEN OverflowFill(inp, SeatFirst(inp, e, get_keys_for_depts(inp, e.pools, e.allowed)))
    ELSE e

\* lines 226-232: hall_subject_dept rebuilt from the seats of the hall, in
\* the order they were taken, a later seat overwriting an earlier one
RebuiltSubjectDept(matrix, seats) ==
    LET subjs == {matrix[seats[i]].subj : i \in DOMAIN seats}
        last(sj) == Max({i \in DOMAIN seats : matrix[seats[i]].subj = sj})
    IN  [sj \in subjs |-> matrix[seats[last(sj)]].dept]

Phase2Continues(inp, e) == e.hall_idx < Len(inp.halls) /\ count_remaining(e.pools) > 0

\* mutant: Phase 2 fills a hall whatever the number of departments left
OverflowHall_without_dept_check(inp, e) ==
    LET hid == CurrentHall(inp, e).id
        e1 == IF hid \in DOMAIN e.hall_matrix THEN e
              ELSE [e EXCEPT !.hall_matrix = (hid :> EmptyDict) @@ @,
                             !.hall_seats = (hid :> <<>>) @@ @]
        e2 == [e1 EXCEPT !.hall_subject_dept =
                   RebuiltSubjectDept(e1.hall_matrix[hid], e1.hall_seats[hid])]
        dws == depts_with_students(inp, e.pools)
    IN  [OverflowFill(inp, [e2 EXCEPT !.allowed = Range(dws),
                                      !.placed_this_round = TRUE])
            EXCEPT !.hall_idx = @ + 1]

\* lines 212-265: one hall of Phase 2
OverflowHall(inp, e) ==
    LET hid == CurrentHall(inp, e).id
        e1 == IF hid \in DOMAIN e.hall_matrix THEN e
              ELSE [e EXCEPT !.hall_matrix = (hid :> EmptyDict) @@ @,
                             !.hall_seats = (hid :> <<>>) @@ @]
        e2 == [e1 EXCEPT !.hall_subject_dept =
                   RebuiltSubjectDept(e1.hall_matrix[hid], e1.hall_seats[hid])]
        dws == depts_with_students(inp, e.pools)
    IN  IF Len(dws) < 2 THEN [e2 EXCEPT !.pc = "return"]
        ELSE [OverflowFill(inp, [e2 EXCEPT !.allowed = Range(dws),
                                           !.placed_this_round = TRUE])
                 EXCEPT !.hall_idx = @ + 1]

\* lines 267-273: every hall gets an entry, then the result is returned
ReturnResult(inp, e) ==
    LET ids == {inp.halls[i].id : i \in DOMAIN inp.halls}
    IN  [e EXCEPT !.hall_seats = @ @@ [h \in ids |-> <<>>],
                  !.hall_matrix = @ @@ [h \in ids |-> EmptyDict],
                  !.pc = "done"]

EngineStep(inp, e) ==
    IF e.pc = "phase1"
    THEN IF Phase1Continues(inp, e) THEN StartHall(inp, e) ELSE [e EXCEPT !.pc = "phase2"]
    ELSE IF e.pc = "hall"
    THEN IF HallLoopContinues(inp, e) THEN HallRound(inp, e) ELSE LeaveHall(inp, e)
    ELSE IF e.pc = "phase2"
    THEN IF Phase2Continues(inp, e) THEN OverflowHall(inp, e) ELSE [e EXCEPT !.pc = "return"]
    ELSE ReturnResult(inp, e)

RECURSIVE EngineRun(_, _)
EngineRun(inp, e) == IF e.pc = "done" THEN e ELSE EngineRun(inp, EngineStep(inp, e))

\* the locals of allocate_seats at its return
allocate_seats(inp) == EngineRun(inp, EngineStart(inp))

(***************************************************************************)
(* allocate_seats as a state machine: one step per loop head.              *)
(***************************************************************************)
\* subjects are only compared for equality and named through the map, so
\* the inputs are taken up to renaming: subjects first appear in the order
\* 1, 2, 3 and the first subject is named Math when a map is given
CanonicalSubjects(ks) ==
    \A i \in DOMAIN ks : \A sj \in 1..(ks[i].subj - 1) : \E j \in 1..(i - 1) : ks[j].subj = sj

KeyLists ==
    {ks \in UNION {[1..n -> [dept : DeptIds, subj : SubjIds]] : n \in 1..MaxKeys} :
        /\ \A i, j \in DOMAIN ks : ks[i] = ks[j] => i = j
        /\ CanonicalSubjects(ks)}

\* every queue holds at least one student, MaxStudents at most in total;
\* student ids are numbered through the queues, so every student is in
\* exactly one queue
StudentInputsFor(ks) ==
    {[i \in DOMAIN ks |->
        [dept |-> ks[i].dept, subj |-> ks[i].subj,
         students |-> [j \in 1..cnt[i] |-> SumSeq([m \in 1..(i - 1) |-> cnt[m]]) + j]]] :
        cnt \in {c \in [DOMAIN ks -> 1..MaxStudents] : SumSeq(c) <= MaxStudents}}

\* three departments of 2, 2 and 1 students, one subject each
ThreeDeptInputs ==
    {<<[dept |-> 1, subj |-> 1, students |-> <<1, 2>>],
       [dept |-> 2, subj |-> 2, students |-> <<3, 4>>],
       [dept |-> 3, subj |-> 3, students |-> <<5>>]>>}

StudentInputs == UNION {StudentInputsFor(ks) : ks \in KeyLists} \cup ThreeDeptInputs

\* halls are listed by id, their labels descending, so that sorting by
\* label reverses the list; capacity 0 stands for a missing capacity
HallInputs ==
    {[i \in 1..n |-> [id |-> i, hall_number |-> n + 1 - i, capacity |-> cap[i]]] :
        n \in 0..MaxHalls, cap \in [1..MaxHalls -> 0..MaxCapacity]}

\* no map, or a map naming the subjects; subjects that no queue uses are
\* named Math
NameMapInputs(sts) ==
    {<<>>} \cup
    {<<m>> : m \in {f \in [SubjIds -> SubjectNames] :
                       /\ f[1] = "Math"
                       /\ \A sj \in SubjIds :
                             (\A i \in DOMAIN sts : sts[i].subj # sj) => f[sj] = "Math"}}

\* the bench widths tried besides the default
BenchWidths == {2, 3, 4}

\* capacity_per_bench and target_capacity: the defaults of line 19, and for
\* inputs of at most two queues also another bench width or a global cap
\* below the largest hall capacity
AllocatorOptions(sts) ==
    {[capacity_per_bench |-> 3, target_capacity |-> <<>>]}
        \cup (IF Len(sts) <= 2
              THEN {[capacity_per_bench |-> w, target_capacity |-> <<>>] : w \in BenchWidths}
                     \cup {[capacity_per_bench |-> 3, target_capacity |-> <<c>>] :
                              c \in 1..(MaxCapacity - 1)}
              ELSE {})

ALInit ==
    /\ students_by_dept_subject \in StudentInputs
    /\ halls \in HallInputs
    /\ \E o \in AllocatorOptions(students_by_dept_subject) :
          /\ capacity_per_bench = o.capacity_per_bench
          /\ target_capacity = o.target_capacity
    /\ benches_per_hall = DEFAULT_BENCHES_PER_HALL
    /\ names_map \in NameMapInputs(students_by_dept_subject)
    /\ pools = InitialPools([students |-> students_by_dept_subject,
                             subject_names_map |-> names_map])
    /\ allocations = <<>>
    /\ hall_seats = EmptyDict
    /\ hall_matrix = EmptyDict
    /\ dominant_pair_idx = 0
    /\ hall_idx = 0
    /\ allowed = {}
    /\ hall_subject_dept = EmptyDict
    /\ placed_this_round = TRUE
    /\ al_pc = "phase1"

Inp == [students |-> students_by_dept_subject, halls |-> halls,
        capacity_per_bench |-> capacity_per_bench, benches_per_hall |-> benches_per_hall,
        target_capacity |-> target_capacity, subject_names_map |-> names_map]

ALCur == [pools |-> pools, allocations |-> allocations, hall_seats |-> hall_seats,
          hall_matrix |-> hall_matrix, dominant_pair_idx |-> dominant_pair_idx,
          hall_idx |-> hall_idx, allowed |-> allowed,
          hall_subject_dept |-> hall_subject_dept,
          placed_this_round |-> placed_this_round, pc |-> al_pc]

ALApply(e) ==
    \E x \in {e} :
        /\ pools' = x.pools
        /\ allocations' = x.allocations
        /\ hall_seats' = x.hall_seats
        /\ hall_matrix' = x.hall_matrix
        /\ dominant_pair_idx' = x.dominant_pair_idx
        /\ hall_idx' = x.hall_idx
        /\ allowed' = x.allowed
        /\ hall_subject_dept' = x.hall_subject_dept
        /\ placed_this_round' = x.placed_this_round
        /\ al_pc' = x.pc
        /\ UNCHANGED al_inputs
        /\ UNCHANGED <<tt_vars, db_vars, cc_vars>>

\* line 115 holds: lines 116-153
BeginHall == al_pc = "phase1" /\ Phase1Continues(Inp, ALCur) /\ ALApply(StartHall(Inp, ALCur))

\* line 115 fails
EndPhase1 ==
    al_pc = "phase1" /\ ~Phase1Continues(Inp, ALCur) /\ ALApply([ALCur EXCEPT !.pc = "phase2"])

\* line 154 holds: lines 155-206
SeatRound == al_pc = "hall" /\ HallLoopContinues(Inp, ALCur) /\ ALApply(HallRound(Inp, ALCur))

\* line 154 fails: line 208
NextHall == al_pc = "hall" /\ ~HallLoopContinues(Inp, ALCur) /\ ALApply(LeaveHall(Inp, ALCur))

\* line 211 holds: lines 212-265
Overflow == al_pc = "phase2" /\ Phase2Continues(Inp, ALCur) /\ ALApply(OverflowHall(Inp, ALCur))

\* line 211 fails
EndPhase2 ==
    al_pc = "phase2" /\ ~Phase2Continues(Inp, ALCur) /\ ALApply([ALCur EXCEPT !.pc = "return"])

\* lines 267-273
Return == al_pc = "return" /\ ALApply(ReturnResult(Inp, ALCur))

(***************************************************************************)
(* run_allocation (routes/allocation.py lines 73-165) for one exam and     *)
(* date and one user.  exam_schedules are the ExamSchedule rows of the     *)
(* exam and date, [department_id, subject_id, academic_year];              *)
(* students_table the Student rows, [id, department_id, academic_year], by *)
(* id; exam_halls the ExamHall rows; subjects_table the name of every      *)
(* Subject; exam_owned tells whether the exam belongs to the user;         *)
(* seat_allocations the stored SeatAllocation rows of the exam and date.   *)
(***************************************************************************)
STUDENTS_PER_BENCH == 3
BENCHES_PER_HALL == 15

MaxSchedules == 2
MaxPerClass == 1
MaxRouteHalls == 2
MaxRouteCapacity == 2

RouteDepts == 1..2
RouteYears == 1..2
RouteSubjects == 1..2

\* lines 92-98
students_for_exam(scheds, studs) ==
    SelectSeq(studs,
        LAMBDA st : /\ st.department_id \in {scheds[i].department_id : i \in DOMAIN scheds}
                    /\ st.academic_year \in {scheds[i].academic_year : i \in DOMAIN scheds})

total_seats(hs) == SumSeq([i \in DOMAIN hs |-> hs[i].capacity])

\* lines 122-130: the queue of key number k, the keys taken in the order
\* the schedules first name them
StudentIdsOf(studs, dept, year) ==
    LET s == SelectSeq(studs, LAMBDA st : st.department_id = dept /\ st.academic_year = year)
    IN  [i \in DOMAIN s |-> s[i].id]

RECURSIVE QueueOf(_, _, _, _, _)
QueueOf(scheds, studs, dept, subj, i) ==
    IF i > Len(scheds) THEN <<>>
    ELSE (IF scheds[i].department_id = dept /\ scheds[i].subject_id = subj
          THEN StudentIdsOf(studs, dept, scheds[i].academic_year) ELSE <<>>)
         \o QueueOf(scheds, studs, dept, subj, i + 1)

students_by_dept_subj(scheds, studs) ==
    LET firsts == SortedSeqOf({i \in DOMAIN scheds :
                     \A j \in 1..(i - 1) :
                        ~(scheds[j].department_id = scheds[i].department_id
                          /\ scheds[j].subject_id = scheds[i].subject_id)})
    IN  [k \in DOMAIN firsts |->
            [dept |-> scheds[firsts[k]].department_id,
             subj |-> scheds[firsts[k]].subject_id,
             students |-> QueueOf(scheds, studs, scheds[firsts[k]].department_id,
                                  scheds[firsts[k]].subject_id, 1)]]

\* lines 135-142: the arguments of the call of allocate_seats
EngineArguments(scheds, studs, hs, names) ==
    [students |-> students_by_dept_subj(scheds, studs),
     halls |-> hs,
     capacity_per_bench |-> STUDENTS_PER_BENCH,
     benches_per_hall |-> BENCHES_PER_HALL,
     target_capacity |-> <<>>,
     subject_names_map |->
        <<[sj \in {scheds[i].subject_id : i \in DOMAIN scheds} |-> names[sj]]>>]

\* lines 150-164: one SeatAllocation row per assignment
StoredRows(allocs) ==
    [i \in DOMAIN allocs |->
        [hall_id |-> allocs[i].hall_id, department_id |-> allocs[i].stu.dept,
         subject_id |-> allocs[i].stu.subj, student_id |-> allocs[i].stu.id,
         bench_number |-> allocs[i].bench, position |-> allocs[i].pos]]

\* the whole handler: [error, missing, assignments, stored]; stored are
\* the SeatAllocation rows of the exam and date after the request
run_allocation(scheds, studs, hs, names, owned, stored) ==
    LET failure(e, m) == [error |-> e, missing |-> m, assignments |-> 0, stored |-> stored]
        total_students == Len(students_for_exam(scheds, studs))
        allocs == allocate_seats(EngineArguments(scheds, studs, hs, names)).allocations
    IN  IF scheds = <<>> THEN failure("no_schedules", 0)
        ELSE IF hs = <<>> THEN failure("no_halls", 0)
        ELSE IF total_students > total_seats(hs)
             THEN failure("not_enough_seats", total_students - total_seats(hs))
        ELSE IF students_by_dept_subj(scheds, studs) = <<>> THEN failure("no_students", 0)
        ELSE IF ~owned THEN failure("not_allowed", 0)
        ELSE [error |-> "none", missing |-> 0, assignments |-> Len(allocs),
              stored |-> StoredRows(allocs)]

ScheduleLists ==
    {sc \in UNION {[1..n -> [department_id : RouteDepts, subject_id : RouteSubjects,
                              academic_year : RouteYears]] : n \in 0..MaxSchedules} :
        \A i, j \in DOMAIN sc : sc[i] = sc[j] => i = j}

\* the classes (department, year) in a fixed order, MaxPerClass students
\* at most in each, ids ascending through the classes
Classes == <<<<1, 1>>, <<1, 2>>, <<2, 1>>, <<2, 2>>>>

StudentTables ==
    {LET ofs(c) == SumSeq([m \in 1..(c - 1) |-> cnt[m]])
         cls(i) == CHOOSE c \in DOMAIN Classes : ofs(c) < i /\ i <= ofs(c) + cnt[c]
     IN  [i \in 1..SumSeq(cnt) |->
            [id |-> i, department_id |-> Classes[cls(i)][1],
             academic_year |-> Classes[cls(i)][2]]] :
        cnt \in [DOMAIN Classes -> 0..MaxPerClass]}

\* the query of line 86 returns the halls by hall_number
HallTables ==
    {[i \in 1..n |-> [id |-> i, hall_number |-> i, capacity |-> cap[i]]] :
        n \in 0..MaxRouteHalls, cap \in [1..MaxRouteHalls -> 1..MaxRouteCapacity]}

\* rows left by an earlier run
StaleRows == <<[hall_id |-> 1, department_id |-> 1, subject_id |-> 1, student_id |-> 1,
                bench_number |-> 1, position |-> 2]>>

DBInit ==
    /\ exam_schedules \in ScheduleLists
    /\ students_table \in StudentTables
    /\ exam_halls \in HallTables
    /\ subjects_table \in {[sj \in RouteSubjects |-> "Math"],
                          [sj \in RouteSubjects |-> IF sj = 1 THEN "Math" ELSE "Phys"]}
    /\ exam_owned \in BOOLEAN
    /\ seat_allocations \in {<<>>, StaleRows}
    /\ run_result = [error |-> "not_run", missing |-> 0, assignments |-> 0]

\* one request handled from its first line to its return
RunAllocation ==
    LET r == run_allocation(exam_schedules, students_table, exam_halls, subjects_table,
                            exam_owned, seat_allocations)
    IN  /\ run_result' = [error |-> r.error, missing |-> r.missing,
                          assignments |-> r.assignments]
        /\ seat_allocations' = r.stored
        /\ UNCHANGED <<exam_schedules, students_table, exam_halls, subjects_table, exam_owned>>
        /\ UNCHANGED <<tt_vars, al_vars, cc_vars>>

(***************************************************************************)
(* Two concurrent requests of the routes view and generate                 *)
(* (routes/allocation.py lines 229-244 and 290-306) for one exam and date. *)
(* Each request runs in its own session and transaction; the database is   *)
(* the configured PostgreSQL at its default isolation (a statement sees    *)
(* the rows committed before it starts; a DELETE waits for a transaction   *)
(* that has deleted the same row).  No unique constraint covers            *)
(* (exam_id, exam_date, student_id) (models.py lines 127-140).             *)
(* A stored row is [by, idx, row]: the request that inserted it (0 for a   *)
(* row of an earlier run), its index in that run, and the columns.         *)
(***************************************************************************)
Requests == 1..2

RowsOfRun(r, rws) == {[by |-> r, idx |-> i, row |-> rws[i]] : i \in DOMAIN rws}

\* lines 237-240 and 298-302: the request reads the stored rows of the key
\* and calls run_allocation only when there are none
CheckStored(r) ==
    /\ req_pc[r] = "start"
    /\ req_pc' = [req_pc EXCEPT ![r] =
                     IF seat_allocations_table = {} THEN "run" ELSE "shown"]
    /\ UNCHANGED <<req_rows, tx_deleted, seat_allocations_table>>
    /\ UNCHANGED <<tt_vars, al_vars, db_vars>>

\* lines 77-146: the tables are read, the seats computed; an error returns
ComputeSeats(r) ==
    LET res == run_allocation(exam_schedules, students_table, exam_halls, subjects_table,
                              exam_owned, <<>>)
    IN  /\ req_pc[r] = "run"
        /\ req_pc' = [req_pc EXCEPT ![r] = IF res.error = "none" THEN "delete" ELSE "failed"]
        /\ req_rows' = [req_rows EXCEPT ![r] = res.stored]
        /\ UNCHANGED <<tx_deleted, seat_allocations_table>>
        /\ UNCHANGED <<tt_vars, al_vars, db_vars>>

\* line 148: the DELETE of the rows of the key, executed at once inside the
\* transaction; it removes the rows committed by now and waits while
\* another open transaction has deleted one of them
DeleteStored(r) ==
    /\ req_pc[r] = "delete"
    /\ \A o \in Requests \ {r} :
          req_pc[o] = "commit" => tx_deleted[o] \cap seat_allocations_table = {}
    /\ tx_deleted' = [tx_deleted EXCEPT ![r] = seat_allocations_table]
    /\ req_pc' = [req_pc EXCEPT ![r] = "commit"]
    /\ UNCHANGED <<req_rows, seat_allocations_table>>
    /\ UNCHANGED <<tt_vars, al_vars, db_vars>>

\* lines 150-165: the new rows are added to the session and flushed and
\* committed together with the DELETE
CommitRows(r) ==
    /\ req_pc[r] = "commit"
    /\ seat_allocations_table' =
          (seat_allocations_table \ tx_deleted[r]) \cup RowsOfRun(r, req_rows[r])
    /\ tx_deleted' = [tx_deleted EXCEPT ![r] = {}]
    /\ req_pc' = [req_pc EXCEPT ![r] = "done"]
    /\ UNCHANGED req_rows
    /\ UNCHANGED <<tt_vars, al_vars, db_vars>>

\* the tables of the concurrent runs: two schedules of one year for two
\* departments, any students, at least one hall
CCInit ==
    /\ exam_schedules \in {sc \in ScheduleLists :
                               /\ Len(sc) = 2
                               /\ sc[1].department_id = 1 /\ sc[2].department_id = 2
                               /\ sc[1].academic_year = 1 /\ sc[2].academic_year = 1}
    /\ students_table \in StudentTables
    /\ exam_halls \in {h \in HallTables : h # <<>>}
    /\ subjects_table = [sj \in RouteSubjects |-> IF sj = 1 THEN "Math" ELSE "Phys"]
    /\ exam_owned = TRUE
    /\ seat_allocations = <<>>
    /\ run_result = [error |-> "not_run", missing |-> 0, assignments |-> 0]
    /\ req_pc = [r \in Requests |-> "start"]
    /\ req_rows = [r \in Requests |-> <<>>]
    /\ tx_deleted = [r \in Requests |-> {}]
    /\ seat_allocations_table \in {{}, RowsOfRun(0, StaleRows)}

(***************************************************************************)
(* Specifications.  Each runs one component and keeps the variables of the *)
(* others at their initial values.                                         *)
(***************************************************************************)
TTIdle ==
    /\ rows = <<>> /\ start_date = StartDate /\ excluded = {}
    /\ subject_names_map = <<>> /\ unplaced = <<>> /\ schedule = <<>>
    /\ current = StartDate /\ days_tried = 0 /\ max_dates = 0
    /\ backfilled_count = 0 /\ tt_pc = "idle" /\ names_arg = <<>>

ALIdle ==
    /\ students_by_dept_subject = <<>> /\ halls = <<>> /\ capacity_per_bench = 3
    /\ benches_per_hall = DEFAULT_BENCHES_PER_HALL /\ target_capacity = <<>>
    /\ names_map = <<>> /\ pools = <<>> /\ allocations = <<>>
    /\ hall_seats = EmptyDict /\ hall_matrix = EmptyDict /\ dominant_pair_idx = 0
    /\ hall_idx = 0 /\ allowed = {} /\ hall_subject_dept = EmptyDict
    /\ placed_this_round = TRUE /\ al_pc = "idle"

CCIdle ==
    /\ req_pc = [r \in Requests |-> "idle"]
    /\ req_rows = [r \in Requests |-> <<>>]
    /\ tx_deleted = [r \in Requests |-> {}]
    /\ seat_allocations_table = {}

DBIdle ==
    /\ exam_schedules = <<>> /\ students_table = <<>> /\ exam_halls = <<>>
    /\ subjects_table = <<>> /\ exam_owned = TRUE /\ seat_allocations = <<>>
    /\ run_result = [error |-> "not_run", missing |-> 0, assignments |-> 0]

TTNext == SkipExcludedDate \/ ScheduleDate \/ ReturnSchedule

InitTT == TTInit /\ ALIdle /\ DBIdle /\ CCIdle

SpecTT == InitTT /\ [][TTNext]_vars

ALNext == BeginHall \/ EndPhase1 \/ SeatRound \/ NextHall \/ Overflow \/ EndPhase2 \/ Return

InitAlloc == ALInit /\ TTIdle /\ DBIdle /\ CCIdle

SpecAlloc == InitAlloc /\ [][ALNext]_vars

\* the runs followed to their end: with the default options, the inputs of
\* three departments and the inputs of MaxStudents students in one or two
\* queues
InitAllocFair ==
    /\ InitAlloc
    /\ capacity_per_bench = 3 /\ target_capacity = <<>>
    /\ \/ students_by_dept_subject \in ThreeDeptInputs
       \/ /\ Len(students_by_dept_subject) <= 2
          /\ SumSeq([k \in DOMAIN students_by_dept_subject |->
                        Len(students_by_dept_subject[k].students)]) = MaxStudents

\* allocate_seats is one sequential call: whenever its next step can be
\* taken, it is taken
SpecAllocFair == InitAllocFair /\ [][ALNext]_vars /\ WF_vars(ALNext)

RouteNext == RunAllocation

InitRoute == DBInit /\ TTIdle /\ ALIdle /\ CCIdle

SpecRoute == InitRoute /\ [][RouteNext]_vars

Check == \E r \in Requests : CheckStored(r)

Compute == \E r \in Requests : ComputeSeats(r)

Delete == \E r \in Requests : DeleteStored(r)

Commit == \E r \in Requests : CommitRows(r)

ConcNext == Check \/ Compute \/ Delete \/ Commit

InitConc == CCInit /\ TTIdle /\ ALIdle

SpecConc == InitConc /\ [][ConcNext]_vars

(***************************************************************************)
(* Properties of the result of allocate_seats.                             *)
(***************************************************************************)
Allocated == al_pc = "done"

SameBench(a, b) == a.hall_id = b.hall_id /\ a.bench = b.bench

\* C5: with 3 positions per bench, no two assignments on adjacent positions
\* of the same bench of a hall (1-2 or 2-3) have the same subject_name.
C5_NoAdjacentSameName ==
    (Allocated /\ capacity_per_bench = 3) =>
        \A i, j \in DOMAIN allocations :
            (/\ SameBench(allocations[i], allocations[j])
             /\ allocations[j].pos = allocations[i].pos + 1)
                => allocations[i].stu.name # allocations[j].stu.name

\* a result where the rule acted: two students of one subject name, of
\* different subject ids, sit on positions 1 and 3 of a bench whose
\* position 2 is taken by another name
C5_Witness ==
    /\ Allocated /\ capacity_per_bench = 3
    /\ \E i, j, k \in DOMAIN allocations :
          /\ SameBench(allocations[i], allocations[j])
          /\ SameBench(allocations[i], allocations[k])
          /\ allocations[i].pos = 1 /\ allocations[k].pos = 2 /\ allocations[j].pos = 3
          /\ allocations[i].stu.name = allocations[j].stu.name
          /\ allocations[i].stu.subj # allocations[j].stu.subj

DeptsWithInputStudents ==
    {students_by_dept_subject[i].dept :
        i \in {k \in DOMAIN students_by_dept_subject :
                  students_by_dept_subject[k].students # <<>>}}

AllocationsIn(hid) == {i \in DOMAIN allocations : allocations[i].hall_id = hid}

\* C6: when at least two departments have students, every hall of the
\* result that holds 2 or more assignments holds students of at least two
\* distinct departments.
C6_TwoDepartmentsPerHall ==
    (Allocated /\ Cardinality(DeptsWithInputStudents) >= 2) =>
        \A h \in DOMAIN halls :
            Cardinality(AllocationsIn(halls[h].id)) >= 2 =>
                Cardinality({allocations[i].stu.dept : i \in AllocationsIn(halls[h].id)}) >= 2

RankOfHall(hid) ==
    CHOOSE r \in DOMAIN halls : halls_sorted(Inp)[r].id = hid

\* no queue has a head student that the hall can take under the rules the
\* allocator seats by: the subject is not held by another department in
\* the hall and some free seat has no neighbour of the same subject name
NobodySeatable ==
    \A k \in DOMAIN pools :
        pools[k] # <<>> =>
            \/ subject_conflict_in_hall(hall_subject_dept, PoolKeys(Inp)[k].dept,
                                        PoolKeys(Inp)[k].subj)
            \/ find_valid_seat(hall_matrix[CurrentHall(Inp, ALCur).id], Head(pools[k]).name,
                               BenchesForHall(Inp, CurrentHall(Inp, ALCur)),
                               capacity_per_bench) = <<>>

AtCapacity ==
    Cardinality(DOMAIN hall_matrix[CurrentHall(Inp, ALCur).id])
        >= HallTarget(Inp, CurrentHall(Inp, ALCur))

C10_OneAssignmentPerSeat ==
    Allocated =>
        \A i, j \in DOMAIN allocations :
            (/\ allocations[i].hall_id = allocations[j].hall_id
             /\ allocations[i].bench = allocations[j].bench
             /\ allocations[i].pos = allocations[j].pos) => i = j

\* a result in which a hall seats students on two benches, so that
\* find_valid_seat walked over occupied seats
C10_Witness ==
    /\ Allocated
    /\ \E i, j \in DOMAIN allocations :
          /\ allocations[i].hall_id = allocations[j].hall_id
          /\ allocations[i].bench # allocations[j].bench

InputStudentCount ==
    SumSeq([k \in DOMAIN students_by_dept_subject |->
               Len(students_by_dept_subject[k].students)])

TotalHallCapacity == SumSeq([h \in DOMAIN halls |-> HallTarget(Inp, halls[h])])

\* C12: allocate_seats never returns a partial seating: when the halls have
\* room for every student and some student is still left unseated
\* (adjacency rule, subject held by another department, fewer than two
\* departments left), the returned assignment list is empty.
C12_NoPartialSeating ==
    (Allocated /\ InputStudentCount <= TotalHallCapacity) =>
        \/ allocations = <<>>
        \/ Len(allocations) = InputStudentCount

\* the departments that still have a student in a queue
DeptsRemaining ==
    {students_by_dept_subject[k].dept : k \in {j \in DOMAIN pools : pools[j] # <<>>}}

\* no subject id is queued for two departments, so the one-department-per-
\* subject rule of a hall never refuses a student
NoSharedSubject ==
    \A i, j \in DOMAIN students_by_dept_subject :
        students_by_dept_subject[i].subj = students_by_dept_subject[j].subj
            => students_by_dept_subject[i].dept = students_by_dept_subject[j].dept

\* C17: single-department fallback: when the halls have room (twice the
\* number of students, so that the outer positions of the benches alone
\* suffice) and fewer than two departments still have unseated students,
\* an input of one department included, the remaining department's
\* students are seated too: the allocator returns with nobody left.
C17_SingleDepartmentFallback ==
    (/\ Allocated /\ capacity_per_bench = 3
     /\ 2 * InputStudentCount <= TotalHallCapacity
     /\ NoSharedSubject
     /\ Cardinality(DeptsRemaining) < 2)
        => DeptsRemaining = {}

\* hall h has capacity left and a free seat none of whose bench neighbours
\* holds subject name n
HasSeatFor(h, n) ==
    /\ Cardinality(DOMAIN hall_matrix[h.id]) < HallTarget(Inp, h)
    /\ find_valid_seat(hall_matrix[h.id], n, BenchesForHall(Inp, h), capacity_per_bench) # <<>>

\* hall h holds a student of a department other than d, so that it holds
\* two departments once a student of d joins
HoldsOtherDept(h, d) ==
    \E seat \in DOMAIN hall_matrix[h.id] : hall_matrix[h.id][seat].dept # d

\* C18: overflow: once Phase 1 has gone through the halls, a student still
\* unplaced is seated in the capacity that is left, whenever a seat exists
\* that satisfies the bench adjacency rule and the two-departments-per-room
\* rule; so the allocator never returns with a student left and such a
\* seat free in a hall that holds another department.
C18_OverflowDrains ==
    Allocated =>
        \A k \in DOMAIN pools :
            pools[k] # <<>> =>
                \A h \in DOMAIN halls :
                    ~(/\ HasSeatFor(halls[h], Head(pools[k]).name)
                      /\ HoldsOtherDept(halls[h], Head(pools[k]).dept))

\* the largest number of students any department still has in the pools
MostRemaining ==
    Max({get_dept_remaining(Inp, pools, d) : d \in DeptsWithInputStudents})

\* C24: at the start of every Phase-1 hall the departments initially
\* allowed in the hall include one that has the most remaining students at
\* that moment.
C24_DominantHasMostRemaining ==
    [][(al_pc = "phase1" /\ al_pc' = "hall") =>
          \E d \in allowed' : get_dept_remaining(Inp, pools, d) = MostRemaining]_vars

\* C25: no hall receives more assignments than its capacity, or than
\* min(capacity, target_capacity) when target_capacity is given, at any
\* point of Phase 1 and Phase 2, whatever the capacity is.
C25_HallWithinCapacity ==
    \A h \in DOMAIN halls :
        Cardinality(AllocationsIn(halls[h].id)) <= HallTarget(Inp, halls[h])

\* a hall whose capacity is no multiple of the bench width and lies above
\* the target_capacity given is filled exactly to the target, although a
\* student is left whom a free seat of the hall would take
C25_Witness ==
    /\ Allocated /\ target_capacity # <<>>
    /\ \E h \in DOMAIN halls :
          /\ HallCapacity(halls[h]) % capacity_per_bench # 0
          /\ target_capacity[1] < HallCapacity(halls[h])
          /\ Cardinality(AllocationsIn(halls[h].id)) = target_capacity[1]
          /\ \E k \in DOMAIN pools :
                /\ pools[k] # <<>>
                /\ find_valid_seat(hall_matrix[halls[h].id], Head(pools[k]).name,
                                   BenchesForHall(Inp, halls[h]), capacity_per_bench) # <<>>

\* C26: for every bench width n >= 2 and every hall capacity, no two
\* assignments at positions p and p+1 of the same bench of a hall have the
\* same subject_name.
C26_NoAdjacentSameNameAnyWidth ==
    (Allocated /\ capacity_per_bench >= 2) =>
        \A i, j \in DOMAIN allocations :
            (/\ SameBench(allocations[i], allocations[j])
             /\ allocations[j].pos = allocations[i].pos + 1)
                => allocations[i].stu.name # allocations[j].stu.name

InputIds ==
    UNION {Range(students_by_dept_subject[k].students) : k \in DOMAIN students_by_dept_subject}

SeatedIds == {allocations[i].stu.id : i \in DOMAIN allocations}

PooledIds == UNION {{pools[k][j].id : j \in DOMAIN pools[k]} : k \in DOMAIN pools}

\* queue k holds a tail of its input queue, in the input order
IsTailOfInput(k) ==
    LET q == students_by_dept_subject[k].students
    IN  /\ Len(pools[k]) <= Len(q)
        /\ \A j \in DOMAIN pools[k] :
              /\ pools[k][j].id = q[Len(q) - Len(pools[k]) + j]
              /\ pools[k][j].dept = students_by_dept_subject[k].dept
              /\ pools[k][j].subj = students_by_dept_subject[k].subj

\* C27: student conservation: with every input student in exactly one
\* queue, at every point of the run the seated students and the students
\* in the pools are disjoint and are together the input students; no
\* student is in two assignments, each assignment carries the department
\* and subject of the student's queue, and each pool is what is left of
\* its queue, a student popped without a seat being back at its head.
C27_StudentConservation ==
    al_pc # "idle" =>
        /\ SeatedIds \cap PooledIds = {}
        /\ SeatedIds \cup PooledIds = InputIds
        /\ \A i, j \in DOMAIN allocations :
              allocations[i].stu.id = allocations[j].stu.id => i = j
        /\ \A i \in DOMAIN allocations :
              \E k \in DOMAIN students_by_dept_subject :
                 /\ allocations[i].stu.id \in Range(students_by_dept_subject[k].students)
                 /\ allocations[i].stu.dept = students_by_dept_subject[k].dept
                 /\ allocations[i].stu.subj = students_by_dept_subject[k].subj
        /\ \A k \in DOMAIN pools : IsTailOfInput(k)

\* a run in which a student was popped and put back: a hall was left below
\* its target while a queue of two or more students of a department seated
\* in the hall had a head that no free seat of the hall would take
C27_Witness ==
    /\ Allocated
    /\ \E h \in DOMAIN halls : \E k \in DOMAIN pools :
          /\ Len(pools[k]) >= 2
          /\ Cardinality(AllocationsIn(halls[h].id)) < HallTarget(Inp, halls[h])
          /\ \E i \in AllocationsIn(halls[h].id) :
                /\ allocations[i].stu.dept = Head(pools[k]).dept
                /\ allocations[i].stu.subj = Head(pools[k]).subj
          /\ find_valid_seat(hall_matrix[halls[h].id], Head(pools[k]).name,
                             BenchesForHall(Inp, halls[h]), capacity_per_bench) = <<>>

\* C28: within one hall all assignments of one subject id belong to one
\* department, at every point of the run.
C28_OneDeptPerSubjectInHall ==
    \A i, j \in DOMAIN allocations :
        (/\ allocations[i].hall_id = allocations[j].hall_id
         /\ allocations[i].stu.subj = allocations[j].stu.subj)
            => allocations[i].stu.dept = allocations[j].stu.dept

\* a student is left whose subject another department holds in a hall that
\* has capacity left and a free seat that would take the student
C28_Witness ==
    /\ Allocated
    /\ \E h \in DOMAIN halls : \E k \in DOMAIN pools :
          /\ pools[k] # <<>>
          /\ Cardinality(AllocationsIn(halls[h].id)) < HallTarget(Inp, halls[h])
          /\ \E i \in AllocationsIn(halls[h].id) :
                /\ allocations[i].stu.subj = Head(pools[k]).subj
                /\ allocations[i].stu.dept # Head(pools[k]).dept
          /\ find_valid_seat(hall_matrix[halls[h].id], Head(pools[k]).name,
                             BenchesForHall(Inp, halls[h]), capacity_per_bench) # <<>>

\* C29: every assignment is placed by the Phase-1 loop: Phase 1 ends with
\* halls and students left only when fewer than two departments have
\* students left, and no step of Phase 2 adds an assignment.
C29_PhaseTwoNeverSeats ==
    /\ []((al_pc = "phase2" /\ Phase2Continues(Inp, ALCur))
             => Cardinality(DeptsRemaining) < 2)
    /\ [][al_pc = "phase2" => allocations' = allocations]_vars

\* a run that seated students in Phase 1 and left Phase 2 at its check of
\* the departments, with a hall not yet visited and students left
C29_Witness ==
    /\ Allocated /\ allocations # <<>>
    /\ hall_idx < Len(halls)
    /\ count_remaining(pools) > 0

\* C30: allocate_seats terminates: every step taken inside a hall seats one
\* student, adds one department to the hall's allowed set or ends the hall,
\* the hall index never decreases, and the run reaches its return.
C30_Terminates ==
    /\ [][al_pc = "hall" =>
            \/ Len(allocations') = Len(allocations) + 1
            \/ (allowed \subseteq allowed' /\ Cardinality(allowed') = Cardinality(allowed) + 1)
            \/ hall_idx' = hall_idx + 1]_vars
    /\ [][hall_idx' >= hall_idx]_vars
    /\ <>Allocated

\* a finished run that went through two halls, seated students and added
\* a third department to a hall
C30_Witness ==
    /\ Allocated /\ hall_idx = 2
    /\ \E h \in DOMAIN halls :
          Cardinality({allocations[i].stu.dept : i \in AllocationsIn(halls[h].id)}) >= 3

(***************************************************************************)
(* Properties of run_allocation.                                           *)
(***************************************************************************)
\* the students the schedules of the exam and date call: those of a
\* scheduled department in the year scheduled for it
StudentsToSeat ==
    Cardinality({i \in DOMAIN students_table :
        \E k \in DOMAIN exam_schedules :
            /\ exam_schedules[k].department_id = students_table[i].department_id
            /\ exam_schedules[k].academic_year = students_table[i].academic_year})

\* C7: when the students of the exam outnumber the seats of all halls, the
\* request fails before anyone is placed: the error carries the deficit
\* students - seats, no assignment is produced and the stored assignments
\* of the exam and date stay as they were.
C7_FailFastWithExactDeficit ==
    [][(/\ exam_schedules # <<>> /\ exam_halls # <<>>
        /\ StudentsToSeat > total_seats(exam_halls))
          => (/\ run_result'.error = "not_enough_seats"
              /\ run_result'.missing = StudentsToSeat - total_seats(exam_halls)
              /\ run_result'.assignments = 0
              /\ seat_allocations' = seat_allocations)]_vars

(***************************************************************************)
(* Properties of two concurrent requests for one exam and date.            *)
(***************************************************************************)
RequestsFinished == \A r \in Requests : req_pc[r] \in {"shown", "failed", "done"}

\* C20: for one (exam_id, exam_date) at most one delete-insert-commit of
\* run_allocation is in progress at a time, and once two requests for the
\* key have finished the stored rows are those of exactly one run: no
\* student has two stored seats.
C20_OneRunStored ==
    /\ Cardinality({r \in Requests : req_pc[r] = "commit"}) <= 1
    /\ RequestsFinished =>
          /\ Cardinality({a.by : a \in seat_allocations_table}) <= 1
          /\ \A a, b \in seat_allocations_table :
                a.row.student_id = b.row.student_id => a = b

====
